---- MODULE Spec2Model ----
(***************************************************************************)
(* Taylor Swift Lyrics Explorer (app.py): the Streamlit script run, the    *)
(* Genius client set-up, the search-with-retry loop, main() and the two    *)
(* text analyses (lyrics statistics, most common words).                   *)
(*                                                                         *)
(* A text is a sequence of one-character strings.                          *)
(***************************************************************************)
EXTENDS Integers, Sequences, FiniteSets, TLC

VARIABLES
    pc,             \* position of the running script / function
    token,          \* os.getenv("GENIUS_TOKEN"): "unset", "empty" or "valid"
    css_found,      \* whether style.css can be opened
    genius,         \* module global genius: "unbound" or "client"
    session_state,  \* st.session_state: a function whose domain is the keys set
    client_cache,   \* st.cache_data entry of get_genius_client: "empty" or "client"
    song_title,     \* value of the text input
    search_btn,     \* value of the search button
    page,           \* elements rendered by the current run, in order
    uncaught,       \* exception that ended the run, "none" if there is none
    runs,           \* script runs started in this session
    max_retries,    \* argument of search_song_with_retry
    attempt,        \* loop variable of search_song_with_retry
    trace,          \* API calls and sleeps of the current search, in order
    result,         \* outcome of search_song_with_retry
    lyrics          \* argument of the text functions

vars == << pc, token, css_found, genius, client_cache, session_state, song_title,
           search_btn, page, uncaught, runs, max_retries, attempt, trace,
           result, lyrics >>

----------------------------------------------------------------------------
(* Bounds of the model *)

MaxPieces == 4

MaxRetriesBound == 4

MaxRuns == 4

(* Constants of the program *)

DefaultMaxRetries == 3

BackoffSeconds == 5

MinWordLen == 3

TopN == 15

----------------------------------------------------------------------------
(* Characters *)

UpperCase == << "A","B","C","D","E","F","G","H","I","J","K","L","M",
                "N","O","P","Q","R","S","T","U","V","W","X","Y","Z" >>

LowerCase == << "a","b","c","d","e","f","g","h","i","j","k","l","m",
                "n","o","p","q","r","s","t","u","v","w","x","y","z" >>

Digits == { "0","1","2","3","4","5","6","7","8","9" }

Range(f) == { f[i] : i \in DOMAIN f }

Whitespace == { " ", "\n", "\t", "\r" }

Punctuation == { "'", ",", ".", "!", "-" }

WordChars == Range(UpperCase) \cup Range(LowerCase) \cup Digits \cup { "_" }

Chars == WordChars \cup Whitespace \cup Punctuation

NonSpace == Chars \ Whitespace

(* str.lower() on one character *)
LowerChar(c) ==
    IF c \in Range(UpperCase)
    THEN LowerCase[CHOOSE i \in DOMAIN UpperCase : UpperCase[i] = c]
    ELSE c

(* str.lower() *)
Lower(t) == [ i \in DOMAIN t |-> LowerChar(t[i]) ]

(* The maximal runs of characters of keep, in order of occurrence: the runs *)
(* of the two halves of the text, the run that ends the first half joined   *)
(* to the run that starts the second when the text does not break there.    *)
RECURSIVE Runs(_, _)
Runs(t, keep) ==
    IF Len(t) = 0 THEN << >>
    ELSE IF Len(t) = 1 THEN (IF t[1] \in keep THEN << t >> ELSE << >>)
    ELSE LET m == Len(t) \div 2
             a == Runs(SubSeq(t, 1, m), keep)
             b == Runs(SubSeq(t, m + 1, Len(t)), keep)
         IN  IF t[m] \in keep /\ t[m + 1] \in keep
             THEN SubSeq(a, 1, Len(a) - 1) \o << a[Len(a)] \o b[1] >> \o Tail(b)
             ELSE a \o b

(* str.split() without arguments *)
Split(t) == Runs(t, NonSpace)

(* re.findall(r'\w+', t) *)
FindAllWords(t) == Runs(t, WordChars)

----------------------------------------------------------------------------
(* display_lyrics_stats *)

(* f"{x:.1f}" of x = (u / w) * 100, as a number of tenths, ties to even *)
RatioTenths(u, w) ==
    LET q == (u * 1000) \div w
        r2 == 2 * ((u * 1000) % w)
    IN  IF r2 > w \/ (r2 = w /\ q % 2 = 1) THEN q + 1 ELSE q

UniqueKeyExact(word) == word

(* word.lower(), the key under which a word counts as unique *)
UniqueKey(word) == Lower(word)

Metric(label, value) == [ kind |-> "metric", label |-> label, value |-> value ]

Warning(text) == [ kind |-> "warning", text |-> text ]

ErrorMsg(text) == [ kind |-> "error", text |-> text ]

(* The elements display_lyrics_stats renders for a text *)
LyricsStats(text) ==
    LET words == Split(text)
        word_count == Len(words)
        unique_words == Cardinality({ UniqueKey(words[i]) : i \in DOMAIN words })
    IN  << Metric("Total Words", word_count),
           Metric("Unique Words", unique_words) >>
        \o IF word_count = 0
           THEN << Warning("Couldn't calculate lyrics stats") >>
           ELSE << Metric("Unique Ratio", RatioTenths(unique_words, word_count)) >>

----------------------------------------------------------------------------
(* display_common_words *)

common_words ==
    { << "i" >>, << "y","o","u" >>, << "t","h","e" >>, << "a" >>,
      << "a","n","d" >>, << "t","o" >>, << "i","t" >>, << "m","e" >>,
      << "m","y" >>, << "w","e" >>, << "i","s" >>, << "i","n" >>,
      << "o","f" >>, << "t","h","a","t" >>, << "t","h","i","s" >> }

KeepsLongOnly(word) == Len(word) > MinWordLen

(* word not in common_words and len(word) > 3 *)
Keeps(word) == word \notin common_words /\ Len(word) > MinWordLen

FilteredWords(text) == SelectSeq(FindAllWords(Lower(text)), Keeps)

CountIn(ws, w) == Cardinality({ i \in DOMAIN ws : ws[i] = w })

(* The keys of Counter(ws), in insertion order *)
CounterKeys(ws) ==
    LET first == { i \in DOMAIN ws : \A j \in 1..(i - 1) : ws[j] # ws[i] }
        Pos(i) == Cardinality({ j \in first : j <= i })
    IN  [ p \in 1..Cardinality(first) |-> ws[CHOOSE i \in first : Pos(i) = p] ]

(* j comes before k in Counter.most_common: larger count, earlier on ties *)
Before(cj, j, ck, k) == cj > ck \/ (cj = ck /\ j < k)

(* Counter(ws).most_common(n) *)
MostCommon(ws, n) ==
    LET keys == CounterKeys(ws)
        cnt == [ k \in DOMAIN keys |-> CountIn(ws, keys[k]) ]
        Rank(k) == 1 + Cardinality({ j \in DOMAIN keys : Before(cnt[j], j, cnt[k], k) })
        m == IF Len(keys) < n THEN Len(keys) ELSE n
    IN  [ p \in 1..m |->
            LET at == CHOOSE k \in DOMAIN keys : Rank(k) = p
            IN  [ Word |-> keys[at], Count |-> cnt[at] ] ]

DataFrame(rows) == [ kind |-> "dataframe", rows |-> rows ]

(* The table display_common_words builds for a text *)
CommonWords(text) == MostCommon(FilteredWords(text), TopN)

----------------------------------------------------------------------------
(* The remote API as seen by search_song_with_retry *)

None == "None"

Songs == { "love_story", "interlude" }

Sp == " "

(* song.lyrics: a song with words, and one whose lyrics hold no word *)
SongLyrics(s) ==
    IF s = "love_story"
    THEN << "L","o","v","e", Sp, "s","t","o","r","y", ",", Sp, "l","o","v","e" >>
    ELSE << Sp, "\n" >>

HttpStatuses == { 429, 403, 500 }

NoExc == [ cls |-> "none", status |-> 0, has403 |-> FALSE ]

(* An exception: its class, the status of its response, whether str(e) holds "403" *)
HTTPError(status, has403) == [ cls |-> "HTTPError", status |-> status, has403 |-> has403 ]

OtherException(has403) == [ cls |-> "Exception", status |-> 0, has403 |-> has403 ]

AttributeError == [ cls |-> "AttributeError", status |-> 0, has403 |-> FALSE ]

Call(out, status, song) ==
    [ op |-> "call", out |-> out, status |-> status, song |-> song, wait |-> 0 ]

SleepFor(seconds) ==
    [ op |-> "sleep", out |-> "", status |-> 0, song |-> None, wait |-> seconds ]

Pending == [ kind |-> "pending", value |-> None, exc |-> NoExc ]

Return(v) == [ kind |-> "return", value |-> v, exc |-> NoExc ]

Raise(e) == [ kind |-> "raise", value |-> None, exc |-> e ]

----------------------------------------------------------------------------
(* search_song_with_retry *)

InRangeInclusive(i, n) == i <= n

(* for attempt in range(max_retries): there is a next iteration *)
InRange(i, n) == i < n

(* attempt == max_retries - 1 *)
IsLastAttempt(i, n) == i = n - 1

IsRateLimitedAnyError(status) == status >= 400

(* e.response.status_code == 429 *)
IsRateLimited(status) == status = 429

WaitTimeFlat(i) == BackoffSeconds

(* wait_time = (attempt + 1) * 5 *)
WaitTime(i) == (i + 1) * BackoffSeconds

retryOnly == << token, css_found, genius, client_cache, session_state, song_title,
                search_btn, page, uncaught, runs, max_retries, lyrics >>

(* The head of the for loop; falling out of it reaches the final return None. *)
ForLoop ==
    /\ pc = "for"
    /\ IF InRange(attempt, max_retries)
       THEN pc' = "try" /\ result' = result
       ELSE pc' = "done" /\ result' = Return(None)
    /\ UNCHANGED << attempt, trace >>
    /\ UNCHANGED retryOnly

(* genius.search_song returns a song: return song *)
TrySong ==
    /\ pc = "try"
    /\ \E s \in Songs :
          /\ trace' = Append(trace, Call("song", 0, s))
          /\ result' = Return(s)
    /\ pc' = "done"
    /\ UNCHANGED attempt
    /\ UNCHANGED retryOnly

(* genius.search_song returns None *)
TryNone ==
    /\ pc = "try"
    /\ trace' = Append(trace, Call("none", 0, None))
    /\ IF IsLastAttempt(attempt, max_retries)
       THEN pc' = "done" /\ result' = Return(None) /\ attempt' = attempt
       ELSE pc' = "for" /\ result' = result /\ attempt' = attempt + 1
    /\ UNCHANGED retryOnly

(* genius.search_song raises HTTPError *)
TryHTTPError ==
    /\ pc = "try"
    /\ \E status \in HttpStatuses, has403 \in BOOLEAN :
          /\ trace' = Append(trace, Call("http", status, None))
          /\ IF IsRateLimited(status)
             THEN pc' = "sleep" /\ result' = result
             ELSE pc' = "done" /\ result' = Raise(HTTPError(status, has403))
    /\ UNCHANGED attempt
    /\ UNCHANGED retryOnly

(* genius.search_song raises an exception that is not an HTTPError *)
TryException ==
    /\ pc = "try"
    /\ \E has403 \in BOOLEAN :
          /\ trace' = Append(trace, Call("exc", 0, None))
          /\ result' = Raise(OtherException(has403))
    /\ pc' = "done"
    /\ UNCHANGED attempt
    /\ UNCHANGED retryOnly

(* time.sleep(wait_time); continue *)
Sleep ==
    /\ pc = "sleep"
    /\ trace' = Append(trace, SleepFor(WaitTime(attempt)))
    /\ attempt' = attempt + 1
    /\ pc' = "for"
    /\ UNCHANGED result
    /\ UNCHANGED retryOnly

SearchSongWithRetry ==
    ForLoop \/ TrySong \/ TryNone \/ TryHTTPError \/ TryException \/ Sleep

NoSession == [ k \in {} |-> TRUE ]

(* A call search_song_with_retry(title, artist, max_retries = n) *)
InitRetry ==
    /\ pc = "for"
    /\ max_retries \in 0..MaxRetriesBound
    /\ attempt = 0
    /\ trace = << >>
    /\ result = Pending
    /\ token = "valid"
    /\ css_found = TRUE
    /\ genius = "client"
    /\ client_cache = "client"
    /\ session_state = NoSession
    /\ song_title = "Love Story"
    /\ search_btn = TRUE
    /\ page = << >>
    /\ uncaught = NoExc
    /\ runs = 1
    /\ lyrics = << >>

SpecRetry == InitRetry /\ [][SearchSongWithRetry]_vars /\ WF_vars(SearchSongWithRetry)

----------------------------------------------------------------------------
(* main() *)

Toggles == { "show_stats", "show_wordcloud", "show_common_words" }

El(kind, text) == [ kind |-> kind, text |-> text ]

(* if key not in st.session_state: st.session_state[key] = True, for each toggle *)
InitSessionState(ss) ==
    [ k \in (DOMAIN ss) \cup Toggles |-> IF k \in DOMAIN ss THEN ss[k] ELSE TRUE ]

NotFoundText == "Song not found. Please check the title and try again."

AccessDeniedText == "Access denied by Genius API (403 Forbidden)."

GenericErrorText == "An error occurred"

MainErrorTextGeneric(e) == GenericErrorText

(* The message of the except clause of main: "403" in str(e) *)
MainErrorText(e) == IF e.has403 THEN AccessDeniedText ELSE GenericErrorText

mainOnly == << token, css_found, genius, client_cache, song_title, search_btn,
               uncaught, runs >>

(* Session-state defaults, title and introduction. *)
MainInit ==
    /\ pc = "main"
    /\ session_state' = InitSessionState(session_state)
    /\ page' = page \o << El("title", "Taylor Swift Lyrics Explorer"),
                          El("markdown", "intro") >>
    /\ pc' = "input"
    /\ UNCHANGED << max_retries, attempt, trace, result, lyrics >>
    /\ UNCHANGED mainOnly

(* The search widgets; the search is started when the button or the title is truthy. *)
MainInput ==
    /\ pc = "input"
    /\ IF search_btn \/ song_title # ""
       THEN /\ pc' = "for"
            /\ max_retries' = DefaultMaxRetries
            /\ attempt' = 0
            /\ trace' = << >>
            /\ result' = Pending
       ELSE /\ pc' = "end"
            /\ UNCHANGED << max_retries, attempt, trace, result >>
    /\ UNCHANGED << session_state, page, lyrics >>
    /\ UNCHANGED mainOnly

(* if song: the song header, the tabs and the lyrics tab *)
MainSongFound ==
    /\ pc = "done"
    /\ result.kind = "return"
    /\ result.value # None
    /\ page' = page \o << El("markdown", result.value), El("tabs", "Lyrics|Analysis"),
                          El("text_area", result.value) >>
    /\ lyrics' = SongLyrics(result.value)
    /\ pc' = "tab_stats"
    /\ UNCHANGED << session_state, max_retries, attempt, trace, result >>
    /\ UNCHANGED mainOnly

(* The statistics section of the analysis tab *)
MainStats ==
    /\ pc = "tab_stats"
    /\ page' = IF session_state["show_stats"]
               THEN page \o << El("subheader", "Lyrics Statistics") >>
                         \o LyricsStats(lyrics) \o << El("markdown", "---") >>
               ELSE page
    /\ pc' = "tab_wordcloud"
    /\ UNCHANGED << session_state, max_retries, attempt, trace, result, lyrics >>
    /\ UNCHANGED mainOnly

(* The word-cloud section; generate_word_cloud shows the figure, or a warning *)
(* when the word-cloud library raises.                                        *)
MainWordCloud ==
    /\ pc = "tab_wordcloud"
    /\ \E drawn \in BOOLEAN :
          page' = IF session_state["show_wordcloud"]
                  THEN page \o << El("subheader", "Word Cloud"),
                                  IF drawn THEN El("pyplot", "Lyrics Word Cloud")
                                  ELSE Warning("Couldn't generate word cloud"),
                                  El("markdown", "---") >>
                  ELSE page
    /\ pc' = "tab_common"
    /\ UNCHANGED << session_state, max_retries, attempt, trace, result, lyrics >>
    /\ UNCHANGED mainOnly

(* The most-common-words section; styling a table without rows may raise in *)
(* the data-frame library, and display_common_words then shows a warning.   *)
MainCommonWords ==
    /\ pc = "tab_common"
    /\ \E styled \in BOOLEAN :
          /\ styled \/ CommonWords(lyrics) = << >>
          /\ page' = IF session_state["show_common_words"]
                     THEN page \o << El("subheader", "Most Common Words"),
                                     IF styled THEN DataFrame(CommonWords(lyrics))
                                     ELSE Warning("Couldn't analyze common words") >>
                     ELSE page
    /\ pc' = "end"
    /\ UNCHANGED << session_state, max_retries, attempt, trace, result, lyrics >>
    /\ UNCHANGED mainOnly

(* else: the song-not-found message and the hint *)
MainNotFound ==
    /\ pc = "done"
    /\ result.kind = "return"
    /\ result.value = None
    /\ page' = page \o << ErrorMsg(NotFoundText), El("info", "Try exact song titles") >>
    /\ pc' = "end"
    /\ UNCHANGED << session_state, max_retries, attempt, trace, result, lyrics >>
    /\ UNCHANGED mainOnly

(* except Exception as e *)
MainExcept ==
    /\ pc = "done"
    /\ result.kind = "raise"
    /\ page' = Append(page, ErrorMsg(MainErrorText(result.exc)))
    /\ pc' = "end"
    /\ UNCHANGED << session_state, max_retries, attempt, trace, result, lyrics >>
    /\ UNCHANGED mainOnly

Main ==
    \/ MainInit \/ MainInput \/ MainSongFound \/ MainStats \/ MainWordCloud
    \/ MainCommonWords \/ MainNotFound \/ MainExcept

SessionStates == UNION { [ D -> BOOLEAN ] : D \in SUBSET Toggles }

(* A call of main() *)
Init ==
    /\ pc = "main"
    /\ session_state \in SessionStates
    /\ song_title \in { "", "Love Story" }
    /\ search_btn \in BOOLEAN
    /\ token = "valid"
    /\ css_found = TRUE
    /\ genius = "client"
    /\ client_cache = "client"
    /\ page = << >>
    /\ uncaught = NoExc
    /\ runs = 1
    /\ max_retries = 0
    /\ attempt = 0
    /\ trace = << >>
    /\ result = Pending
    /\ lyrics = << >>

Next == Main \/ SearchSongWithRetry

Spec == Init /\ [][Next]_vars

----------------------------------------------------------------------------
(* The script run: module level of app.py, top to bottom *)

TokenUnset(t) == t = "unset"

(* if not GENIUS_TOKEN *)
TokenMissing(t) == t \in { "unset", "empty" }

TokenErrorText == "GENIUS_TOKEN environment variable not found."

InitFailedText == "Failed to initialize Genius API client"

ToggleOrder == << "show_stats", "show_wordcloud", "show_common_words" >>

(* The place of the checkbox statement of a toggle, and of the statement after it *)
CheckboxPc(key) == "checkbox_" \o key

AfterCheckbox(key) ==
    IF key = ToggleOrder[1] THEN CheckboxPc(ToggleOrder[2])
    ELSE IF key = ToggleOrder[2] THEN CheckboxPc(ToggleOrder[3])
    ELSE "main"

scriptOnly == << token, song_title, search_btn, runs, max_retries, attempt,
                 trace, result, lyrics >>

(* st.set_page_config and local_css("style.css") *)
LocalCss ==
    /\ pc = "local_css"
    /\ page' = Append(page, IF css_found THEN El("markdown", "style")
                            ELSE Warning("Custom CSS file not found"))
    /\ pc' = "get_genius_client"
    /\ UNCHANGED << css_found, genius, client_cache, session_state, uncaught >>
    /\ UNCHANGED scriptOnly

(* genius = get_genius_client(), a function cached by st.cache_data.  st.stop() *)
(* ends the run; whether the except clause sees the stop first depends on the  *)
(* class of the exception st.stop() raises, and it stops the run again.        *)
GetGeniusClient ==
    /\ pc = "get_genius_client"
    /\ IF client_cache = "client"
       THEN /\ genius' = "client"
            /\ pc' = CheckboxPc(ToggleOrder[1])
            /\ UNCHANGED << page, client_cache >>
       ELSE IF TokenMissing(token)
       THEN /\ \E caught \in BOOLEAN :
                  page' = page \o << ErrorMsg(TokenErrorText) >>
                               \o IF caught THEN << ErrorMsg(InitFailedText) >> ELSE << >>
            /\ pc' = "stopped"
            /\ UNCHANGED << genius, client_cache >>
       ELSE \E constructed \in BOOLEAN :
               IF constructed
               THEN /\ genius' = "client"
                    /\ client_cache' = "client"
                    /\ pc' = CheckboxPc(ToggleOrder[1])
                    /\ page' = page
               ELSE /\ page' = Append(page, ErrorMsg(InitFailedText))
                    /\ pc' = "stopped"
                    /\ UNCHANGED << genius, client_cache >>
    /\ UNCHANGED << css_found, session_state, uncaught >>
    /\ UNCHANGED scriptOnly

(* st.session_state.key = st.checkbox(label, st.session_state.key) in the sidebar: *)
(* reading a key that is not set raises AttributeError, which ends the run.        *)
Checkbox ==
    \E key \in Toggles :
       /\ pc = CheckboxPc(key)
       /\ IF key \in DOMAIN session_state
          THEN /\ \E checked \in BOOLEAN :
                     session_state' = [ session_state EXCEPT ![key] = checked ]
               /\ pc' = AfterCheckbox(key)
               /\ UNCHANGED uncaught
          ELSE /\ uncaught' = AttributeError
               /\ pc' = "crashed"
               /\ UNCHANGED session_state
       /\ UNCHANGED << css_found, genius, client_cache, page >>
       /\ UNCHANGED scriptOnly

(* The next run of the script in the same session *)
Rerun ==
    /\ pc \in { "stopped", "crashed", "end" }
    /\ runs < MaxRuns
    /\ runs' = runs + 1
    /\ pc' = "local_css"
    /\ page' = << >>
    /\ uncaught' = NoExc
    /\ genius' = "unbound"
    /\ css_found' \in BOOLEAN
    /\ UNCHANGED << token, client_cache, session_state, song_title, search_btn,
                    max_retries, attempt, trace, result, lyrics >>

(* The first run of a new session *)
InitScript ==
    /\ pc = "local_css"
    /\ token \in { "unset", "empty", "valid" }
    /\ css_found \in BOOLEAN
    /\ genius = "unbound"
    /\ client_cache = "empty"
    /\ session_state = NoSession
    /\ song_title = "Love Story"
    /\ search_btn = FALSE
    /\ page = << >>
    /\ uncaught = NoExc
    /\ runs = 1
    /\ max_retries = 0
    /\ attempt = 0
    /\ trace = << >>
    /\ result = Pending
    /\ lyrics = << >>

NextScript == LocalCss \/ GetGeniusClient \/ Checkbox \/ Rerun

SpecScript == InitScript /\ [][NextScript]_vars

----------------------------------------------------------------------------
(* The analysis tab on arbitrary lyrics *)

Pieces == << << "L","o","v","e"," " >>, << "l","o","v","e" >>,
             << "t","h","a","t"," " >>, << "o","h","'" >>, << "\n" >>,
             << "s","t","o","r","y"," " >> >>

RECURSIVE Concat(_)
Concat(ss) == IF ss = << >> THEN << >> ELSE Head(ss) \o Concat(Tail(ss))

RECURSIVE Repeat(_, _)
Repeat(t, n) == IF n = 0 THEN << >> ELSE t \o Repeat(t, n - 1)

ShortTexts ==
    { Concat([ i \in DOMAIN ps |-> Pieces[ps[i]] ]) :
        ps \in UNION { [ 1..n -> DOMAIN Pieces ] : n \in 0..MaxPieces } }

(* Lyrics with more distinct long words than the table has rows *)
LongWord(i) == << "w","o","r","d", LowerCase[i] >>

LongText(k) ==
    Concat([ i \in 1..(TopN + 2) |->
               Repeat(LongWord(i) \o << " " >>
                        \o (IF k = 2 THEN << "T","h","a","t","\n" >> ELSE << >>),
                      1 + ((i * k) % 3)) ])

Texts == ShortTexts \cup { LongText(1), LongText(2) }

AllOn == [ k \in Toggles |-> TRUE ]

InitText ==
    /\ pc = "tab_stats"
    /\ lyrics \in Texts
    /\ session_state = AllOn
    /\ token = "valid"
    /\ css_found = TRUE
    /\ genius = "client"
    /\ client_cache = "client"
    /\ song_title = "Love Story"
    /\ search_btn = TRUE
    /\ page = << >>
    /\ uncaught = NoExc
    /\ runs = 1
    /\ max_retries = DefaultMaxRetries
    /\ attempt = 0
    /\ trace = << >>
    /\ result = Pending

NextText == MainStats \/ MainWordCloud \/ MainCommonWords

SpecText == InitText /\ [][NextText]_vars

----------------------------------------------------------------------------
(* Properties *)

IsCall(e) == e.op = "call"

IsSleep(e) == e.op = "sleep"

Is429(e) == e.op = "call" /\ e.out = "http" /\ e.status = 429

IsNoSong(e) == e.op = "call" /\ e.out = "none"

IsFailure(e) == e.op = "call" /\ (e.out = "exc" \/ (e.out = "http" /\ e.status # 429))

Calls == SelectSeq(trace, IsCall)

Waits == SelectSeq(trace, IsSleep)

Shown(el) == \E i \in DOMAIN page : page[i] = el

ShownKind(kind) == \E i \in DOMAIN page : page[i].kind = kind

ShownMetric(label) == \E i \in DOMAIN page : page[i].kind = "metric" /\ page[i].label = label

(* C1: when every API call of search_song_with_retry(max_retries = n), n >= 1, *)
(* fails with HTTP 429, the function makes exactly n calls, returns None       *)
(* without raising, and its k-th wait lasts 5 * k seconds, so that the waits   *)
(* are strictly increasing.                                                    *)
C1_AllRateLimited ==
    (pc = "done" /\ max_retries >= 1 /\ \A i \in DOMAIN Calls : Is429(Calls[i]))
    => /\ Len(Calls) = max_retries
       /\ result = Return(None)
       /\ \A k \in DOMAIN Waits : Waits[k].wait = 5 * k
       /\ \A k \in DOMAIN Waits : k > 1 => Waits[k].wait > Waits[k - 1].wait

C1_Witness ==
    /\ pc = "done"
    /\ max_retries = 3
    /\ Len(Calls) = 3
    /\ \A i \in DOMAIN Calls : Is429(Calls[i])
    /\ Len(Waits) >= 2

(* C7, as stated: every API call after the first is immediately preceded by a *)
(* backoff wait that follows a 429 response; in particular no API call comes  *)
(* right after an attempt that returned no song.                              *)
C7_RetryOnlyAfter429 ==
    \A i \in DOMAIN trace :
       (i > 1 /\ IsCall(trace[i]))
       => i > 2 /\ IsSleep(trace[i - 1]) /\ Is429(trace[i - 2])

(* C7, amended: every API call after the first is immediately preceded either *)
(* by a 429 response and its backoff wait, or, with no wait, by an attempt    *)
(* that returned no song; every wait follows a 429 response; an attempt that  *)
(* returns no song is followed at once by another API call unless it is the   *)
(* last of the max_retries attempts.                                          *)
C7_RetryAfter429OrNoSong ==
    /\ \A i \in DOMAIN trace :
          (i > 1 /\ IsCall(trace[i]))
          => \/ i > 2 /\ IsSleep(trace[i - 1]) /\ Is429(trace[i - 2])
             \/ IsNoSong(trace[i - 1])
    /\ \A i \in DOMAIN trace : IsSleep(trace[i]) => i > 1 /\ Is429(trace[i - 1])
    /\ \A i \in DOMAIN trace :
          (IsNoSong(trace[i]) /\ i < Len(trace)) => IsCall(trace[i + 1])
    /\ (pc = "done" /\ trace # << >> /\ IsNoSong(trace[Len(trace)]))
          => Len(Calls) = max_retries

C7_Witness ==
    /\ pc = "done"
    /\ \E i \in DOMAIN trace : IsNoSong(trace[i]) /\ i < Len(trace)
    /\ \E i \in DOMAIN trace : Is429(trace[i])
    /\ IsNoSong(trace[Len(trace)])

C8_Bounded ==
    /\ Len(Calls) <= max_retries
    /\ Len(Waits) <= max_retries
    /\ \A i \in DOMAIN trace : trace[i].out = "song" => i = Len(trace)
    /\ (result.kind = "return" /\ result.value # None)
          => /\ trace # << >>
             /\ trace[Len(trace)] = Call("song", 0, result.value)

(* C8: for every max_retries >= 0 and every sequence of outcomes the search  *)
(* terminates, with at most max_retries API calls and at most max_retries    *)
(* waits, no API call after one that returned a song, and a returned song is *)
(* the one the last API call returned.                                        *)
C8_TerminatesWithinBudget == [] C8_Bounded /\ <>(pc = "done")

C8_Witness ==
    /\ pc = "done"
    /\ max_retries = MaxRetriesBound
    /\ Len(Calls) = max_retries
    /\ Len(Waits) = max_retries - 1
    /\ result.kind = "return"
    /\ result.value # None

(* C5: an attempt that raises an HTTP error other than 429, or any other      *)
(* exception, ends the retry loop at once (no further API call, no wait);     *)
(* main() shows the access-denied message when the error text holds "403" and *)
(* the generic message otherwise, and renders no lyrics or analysis section.  *)
C5_ErrorSurfaced ==
    \A i \in DOMAIN trace :
       IsFailure(trace[i])
       => /\ i = Len(trace)
          /\ pc \in { "done", "end" }
          /\ result.kind = "raise"
          /\ \A kind \in { "tabs", "text_area", "subheader", "metric", "pyplot",
                           "dataframe" } : ~ShownKind(kind)
          /\ pc = "end"
                => /\ Shown(ErrorMsg(IF result.exc.has403 THEN AccessDeniedText
                                     ELSE GenericErrorText))
                   /\ Cardinality({ j \in DOMAIN page : page[j].kind = "error" }) = 1

C5_Witness ==
    /\ pc = "end"
    /\ Len(trace) = 3
    /\ IsFailure(trace[Len(trace)])
    /\ trace[Len(trace)].status = 403
    /\ result.exc.has403
    /\ Shown(ErrorMsg(AccessDeniedText))

(* C6, as stated: whenever a song is found and the statistics toggle is on, *)
(* the statistics section shows the three metrics Total Words, Unique Words *)
(* and Unique Ratio and no warning, whatever the lyrics.                    *)
C6_ThreeMetricsNoWarning ==
    (/\ pc \in { "tab_wordcloud", "tab_common", "end" }
     /\ result.kind = "return"
     /\ result.value # None
     /\ session_state["show_stats"])
    => /\ ShownMetric("Total Words")
       /\ ShownMetric("Unique Words")
       /\ ShownMetric("Unique Ratio")
       /\ ~Shown(Warning("Couldn't calculate lyrics stats"))

(* C10, as stated: the song-not-found message is shown only in runs where at *)
(* least one API call completed and reported no matching song.               *)
C10_NotFoundOnlyAfterNoSong ==
    Shown(ErrorMsg(NotFoundText)) => \E i \in DOMAIN trace : IsNoSong(trace[i])

(* C2: when GENIUS_TOKEN is unset or empty, get_genius_client shows the error *)
(* message and the run halts there: no client is constructed or cached, no    *)
(* API call is made, and neither the sidebar nor main() is reached.           *)
C2_MissingTokenHalts ==
    token \in { "unset", "empty" }
    => /\ genius = "unbound"
       /\ client_cache = "empty"
       /\ trace = << >>
       /\ pc \in { "local_css", "get_genius_client", "stopped" }
       /\ pc = "stopped" => Shown(ErrorMsg(TokenErrorText)) /\ uncaught = NoExc

C2_Witness ==
    /\ pc = "stopped"
    /\ token = "empty"
    /\ runs = 2
    /\ Shown(ErrorMsg(TokenErrorText))

(* C9, as stated: in every script run a display toggle is set in the session *)
(* state before a statement reads it; no checkbox reads an undefined toggle. *)
C9_TogglesSetBeforeRead ==
    /\ \A key \in Toggles : pc = CheckboxPc(key) => key \in DOMAIN session_state
    /\ uncaught.cls # "AttributeError"

(* The tokens of a text, by position: the places where a maximal run of   *)
(* characters of keep starts, the run that starts there, and the number   *)
(* of its occurrences.                                                    *)
Starts(t, keep) == { i \in DOMAIN t : t[i] \in keep /\ (i = 1 \/ t[i - 1] \notin keep) }

TokenAt(t, keep, i) ==
    SubSeq(t, i, CHOOSE j \in i..Len(t) :
                    /\ \A k \in i..j : t[k] \in keep
                    /\ j = Len(t) \/ t[j + 1] \notin keep)

Occurrences(w, t, keep) ==
    Cardinality({ i \in Starts(t, keep) : TokenAt(t, keep, i) = w })

(* C4: Total Words is the number of whitespace-separated tokens of the lyrics, *)
(* Unique Words the number of distinct tokens after lower-casing, so Unique    *)
(* Words <= Total Words and tokens that differ only in case count once.        *)
C4_StatsCounts ==
    pc # "tab_stats"
    => LET at == Starts(lyrics, NonSpace)
           total == Cardinality(at)
           uniq == Cardinality({ Lower(TokenAt(lyrics, NonSpace, i)) : i \in at })
       IN  /\ Shown(Metric("Total Words", total))
           /\ Shown(Metric("Unique Words", uniq))
           /\ uniq <= total
           /\ \A i \in DOMAIN page :
                 page[i].kind = "metric"
                 => /\ page[i].label = "Total Words" => page[i].value = total
                    /\ page[i].label = "Unique Words" => page[i].value = uniq

C4_Witness ==
    /\ pc = "end"
    /\ Shown(Metric("Total Words", 3))
    /\ Shown(Metric("Unique Words", 2))
    /\ \E i, j \in Starts(lyrics, NonSpace) :
          /\ TokenAt(lyrics, NonSpace, i) # TokenAt(lyrics, NonSpace, j)
          /\ Lower(TokenAt(lyrics, NonSpace, i)) = Lower(TokenAt(lyrics, NonSpace, j))

(* C3: the table of display_common_words holds no stop word and no token of *)
(* length 3 or less, has at most 15 rows, gives each word the number of its *)
(* occurrences as a token of the lower-cased lyrics, is in non-increasing   *)
(* order of count, and omits no eligible token with a count greater than a  *)
(* listed one.                                                              *)
C3_CommonWordsTable ==
    \A i \in DOMAIN page :
       page[i].kind = "dataframe"
       => LET rows == page[i].rows
              low == Lower(lyrics)
              Occ(w) == Occurrences(w, low, WordChars)
              eligible == { w \in { TokenAt(low, WordChars, s) : s \in Starts(low, WordChars) } :
                              w \notin common_words /\ Len(w) > 3 }
              listed == { rows[r].Word : r \in DOMAIN rows }
          IN  /\ Len(rows) <= 15
              /\ \A r \in DOMAIN rows :
                    /\ rows[r].Word \notin common_words
                    /\ Len(rows[r].Word) > 3
                    /\ rows[r].Count = Occ(rows[r].Word)
                    /\ rows[r].Count >= 1
              /\ \A p, q \in DOMAIN rows : p < q => rows[p].Count >= rows[q].Count
              /\ \A w \in eligible \ listed : \A r \in DOMAIN rows : Occ(w) <= rows[r].Count

C3_Witness ==
    /\ pc = "end"
    /\ lyrics = LongText(2)
    /\ \E i \in DOMAIN page :
          /\ page[i].kind = "dataframe"
          /\ Len(page[i].rows) = TopN
          /\ page[i].rows[1].Count > page[i].rows[TopN].Count

====
